---- MODULE Spec2Model ----
(***************************************************************************)
(* Story Learning Game backend (src/main.py, src/schemas.py).              *)
(*                                                                         *)
(* The store is two MongoDB collections, "learningpath" and "progress",    *)
(* each a sequence of documents in insertion order; every document carries *)
(* the _id the store generated for it.  The request handlers of main.py    *)
(* are modelled twice: as whole calls (specification Spec, one request at  *)
(* a time) and as the sequence of their store calls (specification         *)
(* ConcSpec, the store calls of several requests interleaved).             *)
(***************************************************************************)
EXTENDS Integers, Sequences, FiniteSets, TLC

VARIABLES
    db,            \* the module-level store handle imported from database
    learningpath,  \* db["learningpath"]: documents in insertion order
    progress,      \* db["progress"]: documents in insertion order
    nextId,        \* the next _id the store generates
    last,          \* the last completed call: operation, arguments, response
    pre,           \* both collections as they were when the last call started
    streak,        \* consecutive toggle_progress calls with last's arguments
    base,          \* the pair's completed set before the first call of the streak
    reqs           \* ConcSpec: the requests in flight, one per worker slot

vars == <<db, learningpath, progress, nextId, last, pre, streak, base, reqs>>

----------------------------------------------------------------------------
(* Bounds of the model *)

\* _ids the store hands out in one behaviour (inserts stop after that)
MaxIds == 3
\* length of a run of identical toggle calls that is tracked as one streak
MaxStreak == 3

----------------------------------------------------------------------------
(* Values *)

None == "None"
\* the handle is None, or a database that answers, or a database whose
\* every call raises (the server cannot be reached)
DbStates == {None, "working", "unreachable"}

SeedTitle == "Hero's Journey into Coding"
Users == {"guest", "ann"}
Titles == {SeedTitle, "Side Quest"}
\* the (user_id, path_title) pairs requests name: two users of the seeded
\* path, and a title no LearningPath has
Pairs == {<<"guest", SeedTitle>>, <<"ann", SeedTitle>>, <<"ann", "Side Quest">>}

\* f"n{k}"
NodeId(k) == <<"n", k>>
\* the toggles the interleaved requests make: both nodes for one pair, one
\* node for another
ConcToggles ==
    {<<"guest", SeedTitle, NodeId(1)>>, <<"guest", SeedTitle, NodeId(2)>>,
     <<"ann", "Side Quest", NodeId(1)>>}
\* the node ids requests toggle
ToggleNodes == {NodeId(1), NodeId(2)}
\* ConcSpec: the workers that run requests at the same time
Slots == {1, 2}

\* collections[:10]
MaxCollections == 10
\* str(e)[:50]
MaxErrorChars == 50
\* collections of the database that are not this program's
OtherCollections ==
    <<"c1", "c2", "c3", "c4", "c5", "c6", "c7", "c8", "c9">>
\* how many of them the database holds
OtherCounts == {0, Len(OtherCollections)}
\* whether DATABASE_URL and DATABASE_NAME are set
EnvSamples == {<<TRUE, TRUE>>, <<FALSE, FALSE>>}
\* whether the learningpath and progress collections exist when empty
Existing ==
    {[learningpath |-> FALSE, progress |-> FALSE],
     [learningpath |-> TRUE, progress |-> TRUE]}
\* lengths of the exception text
ErrorLengths == {20, 80}

\* the first field of each tuple of entries (title); summary, content,
\* difficulty and type are fixed text carried along with it
entries ==
    << "Arrival", "Fork in the Road", "First Spark", "Puzzle Gate",
       "Syntax Springs", "Looping Lagoon", "Branching Bridge",
       "Mapmaker's Post", "Function Falls", "Testy Tunnels", "Object Oasis",
       "Module Market", "Async Airships", "Error Escarpment", "Data Dunes",
       "Promise Peaks", "HTTP Harbor", "JSON Jungle", "SVG Savanna",
       "State Summit", "Hook Highlands", "Design Desert",
       "Accessibility Arcade", "Performance Plains", "Security Stronghold",
       "Deployment Dock", "Observability Overlook", "Final Forge" >>

\* for i, (...) in enumerate(entries): PathNode(id=f"n{i+1}", order=i, ...)
\* (entries[j] here is the source's entries[j-1])
big_nodes_bad ==
    [j \in 1..Len(entries) |-> [id |-> NodeId(j), title |-> entries[j], order |-> j]]
big_nodes ==
    [j \in 1..Len(entries) |->
        [id |-> NodeId(j), title |-> entries[j], order |-> j - 1]]

\* LearningPath(title=..., description=..., theme="gaming", nodes=big_nodes)
SeedPath ==
    [title |-> SeedTitle,
     description |-> "An interactive story where each stop teaches a concept.",
     theme |-> "gaming",
     nodes |-> big_nodes]

\* Progress(user_id=..., path_title=..., completed_node_ids=[...])
Progress(user_id, path_title, completed) ==
    [user_id |-> user_id, path_title |-> path_title,
     completed_node_ids |-> completed]

----------------------------------------------------------------------------
(* Python and store helpers *)

Range(s) == {s[i] : i \in DOMAIN s}

NoDup(s) == \A i, j \in DOMAIN s : i # j => s[i] # s[j]

\* list(set): the elements of S, each once, in an order the build chooses
ListOfSet(S) ==
    {s \in [1..Cardinality(S) -> S] : Range(s) = S}

\* the documents of coll matching a (user_id, path_title) filter, by position
Matching(coll, user_id, path_title) ==
    {i \in DOMAIN coll :
        coll[i].user_id = user_id /\ coll[i].path_title = path_title}

Min(S) == CHOOSE m \in S : \A n \in S : m <= n

\* coll.find_one({"user_id": ..., "path_title": ...}): the first match in
\* natural (insertion) order, or None
FindOne(coll, user_id, path_title) ==
    IF Matching(coll, user_id, path_title) = {}
    THEN [none |-> TRUE]
    ELSE coll[Min(Matching(coll, user_id, path_title))]

IsNone(doc) == "none" \in DOMAIN doc

\* list(lp_coll.find({}).limit(1))
FindLimit1(coll) == IF coll = <<>> THEN <<>> ELSE <<coll[1]>>

\* coll.update_one({"_id": id}, {"$set": {"completed_node_ids": ids}}):
\* changes the document with that _id, nothing when there is none
UpdateOneNoFilter(coll, id, ids) ==
    [i \in DOMAIN coll |-> [coll[i] EXCEPT !.completed_node_ids = ids]]
UpdateOne(coll, id, ids) ==
    [i \in DOMAIN coll |->
        IF coll[i]._id = id
        THEN [coll[i] EXCEPT !.completed_node_ids = ids]
        ELSE coll[i]]

\* coll.delete_many({})
DeleteMany(coll) == <<>>

\* database.create_document(collection_name, data): inserts the model's
\* fields as one new document, to which the store gives a fresh _id
CreateDocument(coll, data, id) == Append(coll, [_id |-> id] @@ data)

\* database.get_documents(collection_name): every document of the collection
GetDocuments(coll) == coll

\* d.pop("_id", None); LearningPath(**d)
StripIdKept(d) == d
StripId(d) == [f \in (DOMAIN d) \ {"_id"} |-> d[f]]

\* raise HTTPException(status_code=500, detail="Database not configured")
NotConfigured ==
    [outcome |-> "error", status_code |-> 500,
     detail |-> "Database not configured"]

\* database.get_documents / create_document without a store handle
StoreUnavailable ==
    [outcome |-> "error", status_code |-> 500, detail |-> "StoreUnavailable"]

\* a handler's normal return value
Ok(body) == [outcome |-> "ok", body |-> body]

\* database.get_documents raises without a store handle, and when the
\* store call it makes raises
GetDocumentsFails(d) == d # "working"

\* a pymongo call (find, find_one, list_collection_names) on a database
\* that cannot be reached raises
StoreRaises(d) == d = "unreachable"

\* an exception no handler catches: the framework answers 500
ServerError ==
    [outcome |-> "error", status_code |-> 500,
     detail |-> "Internal Server Error"]

Snapshot == [learningpath |-> learningpath, progress |-> progress]

NoArgs == [none |-> TRUE]
NoReq == [pc |-> "idle"]

----------------------------------------------------------------------------
(* The handlers' decisions *)

\* if db is None:
DbMissingNever(d) == FALSE
DbMissing(d) == d = None

\* if existing and not force: return "Already bootstrapped"
AlreadyBootstrappedNever(existing, force) == FALSE
AlreadyBootstrapped(existing, force) == existing # <<>> /\ ~force

\* if force: lp_coll.delete_many({})
ClearedPathsKept(force, coll) == coll
ClearedPaths(force, coll) == IF force THEN DeleteMany(coll) ELSE coll

\* if force: prog_coll.delete_many({})
ClearedProgressSeedOnly(force, coll) ==
    IF force
    THEN SelectSeq(coll, LAMBDA d : d.path_title # SeedTitle)
    ELSE coll
ClearedProgressAlways(force, coll) == DeleteMany(coll)
ClearedProgress(force, coll) == IF force THEN DeleteMany(coll) ELSE coll

\* {"status": "ok", "message": f"Bootstrapped with {len(big_nodes)} goals",
\*  "count": len(big_nodes)}
Bootstrapped ==
    Ok([status |-> "ok", message |-> <<"Bootstrapped with", Len(big_nodes), "goals">>,
        count |-> Len(big_nodes)])

\* {"status": "ok", "message": "Already bootstrapped"}
AlreadyResponse ==
    Ok([status |-> "ok", message |-> <<"Already bootstrapped">>])

\* completed = set(doc.get("completed_node_ids", []));
\* if p.node_id in completed: completed.remove(p.node_id)
\* else: completed.add(p.node_id)
ToggleSetAlwaysAdd(completed, node_id) == completed \cup {node_id}
ToggleSetRemoveAll(completed, node_id) ==
    IF node_id \in completed THEN {} ELSE completed \cup {node_id}
ToggleSet(completed, node_id) ==
    IF node_id \in completed
    THEN completed \ {node_id}
    ELSE completed \cup {node_id}

\* the lists update_one may store and the call return: list(completed)
ToggledListsNoSet(doc, node_id) ==
    {Append(doc.completed_node_ids, node_id)}
ToggledListsIdempotent(doc, node_id) ==
    ListOfSet(Range(doc.completed_node_ids) \cup {node_id})
ToggledLists(doc, node_id) ==
    ListOfSet(ToggleSet(Range(doc.completed_node_ids), node_id))

\* get_progress: [] when find_one found nothing, else the stored list
ProgressOfAlwaysEmpty(doc) == <<>>
ProgressOf(doc) == IF IsNone(doc) THEN <<>> ELSE doc.completed_node_ids

\* the completed set of a pair as get_progress reports it
Completed(coll, user_id, path_title) ==
    Range(ProgressOf(FindOne(coll, user_id, path_title)))

----------------------------------------------------------------------------
(* Spec: one request at a time, each handler as one step *)

\* what a completed call leaves in the history variables
Called(op, args, resp) ==
    /\ last' = [op |-> op, args |-> args, resp |-> resp]
    /\ pre' = Snapshot

NoStreak == streak' = 0 /\ base' = {}

\* POST /bootstrap
bootstrap_content(force) ==
    LET args == [force |-> force]
        existing == FindLimit1(learningpath)
    IN  /\ NoStreak
        /\ UNCHANGED <<db, reqs>>
        /\ IF DbMissing(db)
           THEN /\ Called("bootstrap_content", args, NotConfigured)
                /\ UNCHANGED <<learningpath, progress, nextId>>
           ELSE IF StoreRaises(db)
           THEN /\ Called("bootstrap_content", args, ServerError)
                /\ UNCHANGED <<learningpath, progress, nextId>>
           ELSE IF AlreadyBootstrapped(existing, force)
           THEN /\ Called("bootstrap_content", args, AlreadyResponse)
                /\ UNCHANGED <<learningpath, progress, nextId>>
           ELSE /\ nextId <= MaxIds
                /\ learningpath' =
                      CreateDocument(ClearedPaths(force, learningpath),
                                     SeedPath, nextId)
                /\ progress' = ClearedProgress(force, progress)
                /\ nextId' = nextId + 1
                /\ Called("bootstrap_content", args, Bootstrapped)

\* GET /paths
list_paths ==
    /\ NoStreak
    /\ UNCHANGED <<db, learningpath, progress, nextId, reqs>>
    /\ IF GetDocumentsFails(db)
       THEN Called("list_paths", NoArgs, StoreUnavailable)
       ELSE Called("list_paths", NoArgs,
                   Ok([i \in DOMAIN GetDocuments(learningpath) |->
                          StripId(GetDocuments(learningpath)[i])]))

\* POST /progress/toggle
toggle_progress(user_id, path_title, node_id) ==
    LET args == [user_id |-> user_id, path_title |-> path_title,
                 node_id |-> node_id]
        doc == FindOne(progress, user_id, path_title)
        again == /\ last.op = "toggle_progress"
                 /\ last.args = args
                 /\ streak \in 1..(MaxStreak - 1)
        counted == /\ streak' = IF again THEN streak + 1 ELSE 1
                   /\ base' = IF again THEN base
                              ELSE Completed(progress, user_id, path_title)
    IN  /\ UNCHANGED <<db, learningpath, reqs>>
        /\ IF DbMissing(db)
           THEN /\ Called("toggle_progress", args, NotConfigured)
                /\ NoStreak
                /\ UNCHANGED <<progress, nextId>>
           ELSE IF StoreRaises(db)
           THEN /\ Called("toggle_progress", args, ServerError)
                /\ NoStreak
                /\ UNCHANGED <<progress, nextId>>
           ELSE IF IsNone(doc)
           THEN /\ nextId <= MaxIds
                /\ progress' =
                      CreateDocument(progress,
                          Progress(user_id, path_title, <<node_id>>), nextId)
                /\ nextId' = nextId + 1
                /\ counted
                /\ Called("toggle_progress", args,
                          Ok([status |-> "ok",
                              completed_node_ids |-> <<node_id>>]))
           ELSE \E completed \in ToggledLists(doc, node_id) :
                /\ progress' = UpdateOne(progress, doc._id, completed)
                /\ UNCHANGED nextId
                /\ counted
                /\ Called("toggle_progress", args,
                          Ok([status |-> "ok",
                              completed_node_ids |-> completed]))

\* GET /progress/{user_id}/{path_title}
get_progress(user_id, path_title) ==
    LET args == [user_id |-> user_id, path_title |-> path_title]
        doc == FindOne(progress, user_id, path_title)
    IN  /\ NoStreak
        /\ UNCHANGED <<db, learningpath, progress, nextId, reqs>>
        /\ IF DbMissing(db)
           THEN Called("get_progress", args, NotConfigured)
           ELSE IF StoreRaises(db)
           THEN Called("get_progress", args, ServerError)
           ELSE Called("get_progress", args,
                       Ok([completed_node_ids |-> ProgressOf(doc)]))

\* collections[:10]
FirstTenAll(names) == names
FirstTen(names) ==
    IF Len(names) <= MaxCollections THEN names
    ELSE SubSeq(names, 1, MaxCollections)

\* str(e)[:50], a text by its length
FirstFifty(length) ==
    IF length <= MaxErrorChars THEN length ELSE MaxErrorChars

\* db.list_collection_names(): the other collections of the database, and
\* learningpath and progress once they exist (a collection holding
\* documents exists; an empty one exists when has says so)
ListCollectionNames(others, has) ==
    SubSeq(OtherCollections, 1, others)
        \o (IF learningpath # <<>> \/ has.learningpath
            THEN <<"learningpath">> ELSE <<>>)
        \o (IF progress # <<>> \/ has.progress
            THEN <<"progress">> ELSE <<>>)

\* GET /test; url and name: os.getenv("DATABASE_URL"), os.getenv(
\* "DATABASE_NAME"); length: the length of the text of the exception
\* list_collection_names raises
test_database(url, name, others, has, length) ==
    LET response ==
            [backend |-> "Running",
             database |->
                IF DbMissing(db) THEN <<"Available but not initialized">>
                ELSE IF StoreRaises(db)
                THEN <<"Connected but Error", FirstFifty(length)>>
                ELSE <<"Connected & Working">>,
             database_url |-> IF url THEN "Set" ELSE "Not Set",
             database_name |-> IF name THEN "Set" ELSE "Not Set",
             connection_status |->
                IF DbMissing(db) THEN "Not Connected" ELSE "Connected",
             collections |->
                IF DbMissing(db) \/ StoreRaises(db) THEN <<>>
                ELSE FirstTen(ListCollectionNames(others, has))]
    IN  /\ NoStreak
        /\ UNCHANGED <<db, learningpath, progress, nextId, reqs>>
        /\ Called("test_database",
                  [url |-> url, name |-> name, others |-> others], Ok(response))

Init ==
    /\ db \in DbStates
    /\ learningpath = <<>>
    /\ progress = <<>>
    /\ nextId = 1
    /\ last = [op |-> "none", args |-> NoArgs, resp |-> [outcome |-> "none"]]
    /\ pre = [learningpath |-> <<>>, progress |-> <<>>]
    /\ streak = 0
    /\ base = {}
    /\ reqs = [s \in Slots |-> NoReq]

Next ==
    \/ \E force \in BOOLEAN : bootstrap_content(force)
    \/ list_paths
    \/ \E p \in Pairs, n \in ToggleNodes : toggle_progress(p[1], p[2], n)
    \/ \E p \in Pairs : get_progress(p[1], p[2])
    \/ \E env \in EnvSamples, others \in OtherCounts, has \in Existing,
          length \in ErrorLengths :
          test_database(env[1], env[2], others, has, length)

Spec == Init /\ [][Next]_vars

----------------------------------------------------------------------------------------------------------------------------------------
(* ConcSpec: the handlers as their store calls, requests interleaved.      *)
(* Here last is the request the step just taken completed (op "none" when  *)
(* the step completed none).                                               *)

\* a step of slot s: every other request in flight has now been interleaved
Step(s, r) ==
    reqs' = [x \in Slots |->
                IF x = s THEN r
                ELSE IF reqs[x].pc # "idle" THEN [reqs[x] EXCEPT !.solo = FALSE]
                ELSE reqs[x]]

\* the update_one step of slot s, which toggled node_id in the document
\* read: a toggle in flight that read the same document, for another
\* node, notes node_id as written before its own write (earlier)
StepUpdate(s, read, node_id) ==
    reqs' = [x \in Slots |->
                IF x = s THEN NoReq
                ELSE IF reqs[x].pc = "found"
                THEN [reqs[x] EXCEPT
                        !.solo = FALSE,
                        !.earlier = IF /\ reqs[x].doc = read
                                       /\ reqs[x].args.node_id # node_id
                                    THEN <<node_id>> ELSE @]
                ELSE IF reqs[x].pc # "idle" THEN [reqs[x] EXCEPT !.solo = FALSE]
                ELSE reqs[x]]

\* what the completed toggle r leaves in last about a race it was in: the
\* document it had read and the node written before its own write
Raced(r) ==
    IF r.earlier = <<>> THEN <<>>
    ELSE [read |-> r.doc, earlier |-> r.earlier]

\* completed = set(doc.get("completed_node_ids", [])): the set is computed
\* from the document find_one returned, not from the collection as it is
\* when update_one runs
WriteBaseCurrent(read, coll) ==
    IF \E i \in DOMAIN coll : coll[i]._id = read._id
    THEN coll[CHOOSE i \in DOMAIN coll : coll[i]._id = read._id]
    ELSE read
WriteBase(read, coll) == read

\* the step returns the response of slot s's request
Completes(s, op, args, resp, solo) ==
    /\ Step(s, NoReq)
    /\ last' = [op |-> op, args |-> args, resp |-> resp, solo |-> solo]
    /\ UNCHANGED <<pre, streak, base>>

\* the step leaves slot s's request in flight, as r
Continues(s, r) ==
    /\ Step(s, r)
    /\ last' = [op |-> "none", args |-> NoArgs, resp |-> [outcome |-> "none"]]
    /\ UNCHANGED <<pre, streak, base>>

\* toggle_progress up to and including coll.find_one(...)
toggle_find(s, user_id, path_title, node_id) ==
    LET args == [user_id |-> user_id, path_title |-> path_title,
                 node_id |-> node_id]
    IN  /\ reqs[s].pc = "idle"
        /\ UNCHANGED <<db, learningpath, progress, nextId>>
        /\ IF DbMissing(db)
           THEN Completes(s, "toggle_progress", args, NotConfigured, TRUE)
           ELSE IF StoreRaises(db)
           THEN Completes(s, "toggle_progress", args, ServerError, TRUE)
           ELSE Continues(s, [pc |-> "found", op |-> "toggle_progress",
                              args |-> args,
                              doc |-> FindOne(progress, user_id, path_title),
                              earlier |-> <<>>,
                              solo |-> TRUE])

\* toggle_progress from "if not doc:" to its return: create_document, or
\* update_one by the _id of the document find_one returned
toggle_write(s) ==
    LET r == reqs[s]
    IN  /\ r.pc = "found"
        /\ UNCHANGED <<db, learningpath>>
        /\ IF IsNone(r.doc)
           THEN /\ nextId <= MaxIds
                /\ progress' =
                      CreateDocument(progress,
                          Progress(r.args.user_id, r.args.path_title,
                                   <<r.args.node_id>>), nextId)
                /\ nextId' = nextId + 1
                /\ Completes(s, r.op, r.args,
                             Ok([status |-> "ok",
                                 completed_node_ids |-> <<r.args.node_id>>]),
                             r.solo)
           ELSE \E completed \in
                    ToggledLists(WriteBase(r.doc, progress), r.args.node_id) :
                /\ progress' = UpdateOne(progress, r.doc._id, completed)
                /\ UNCHANGED nextId
                /\ StepUpdate(s, r.doc, r.args.node_id)
                /\ last' = Raced(r) @@
                           [op |-> r.op, args |-> r.args,
                            resp |-> Ok([status |-> "ok",
                                         completed_node_ids |-> completed]),
                            solo |-> r.solo]
                /\ UNCHANGED <<pre, streak, base>>

\* bootstrap_content up to "if existing and not force"; began is the
\* number of LearningPath documents the store held when the call started
bootstrap_find(s, force) ==
    LET args == [force |-> force]
        existing == FindLimit1(learningpath)
    IN  /\ reqs[s].pc = "idle"
        /\ UNCHANGED <<db, learningpath, progress, nextId>>
        /\ IF DbMissing(db)
           THEN Completes(s, "bootstrap_content", args, NotConfigured, TRUE)
           ELSE IF StoreRaises(db)
           THEN Completes(s, "bootstrap_content", args, ServerError, TRUE)
           ELSE IF AlreadyBootstrapped(existing, force)
           THEN Completes(s, "bootstrap_content", args, AlreadyResponse, TRUE)
           ELSE Continues(s, [pc |-> IF force THEN "delete_paths" ELSE "insert",
                              op |-> "bootstrap_content", args |-> args,
                              began |-> Len(learningpath),
                              solo |-> TRUE])

\* lp_coll.delete_many({})
bootstrap_delete_paths(s) ==
    /\ reqs[s].pc = "delete_paths"
    /\ learningpath' = ClearedPaths(reqs[s].args.force, learningpath)
    /\ UNCHANGED <<db, progress, nextId>>
    /\ Continues(s, [reqs[s] EXCEPT !.pc = "delete_progress"])

\* prog_coll.delete_many({})
bootstrap_delete_progress(s) ==
    /\ reqs[s].pc = "delete_progress"
    /\ progress' = ClearedProgress(reqs[s].args.force, progress)
    /\ UNCHANGED <<db, learningpath, nextId>>
    /\ Continues(s, [reqs[s] EXCEPT !.pc = "insert"])

\* create_document("learningpath", path) and the return
bootstrap_insert(s) ==
    /\ reqs[s].pc = "insert"
    /\ nextId <= MaxIds
    /\ learningpath' = CreateDocument(learningpath, SeedPath, nextId)
    /\ nextId' = nextId + 1
    /\ UNCHANGED <<db, progress>>
    /\ Completes(s, reqs[s].op,
                 [force |-> reqs[s].args.force, began |-> reqs[s].began],
                 Bootstrapped, reqs[s].solo)

ConcNext ==
    \/ \E s \in Slots, t \in ConcToggles :
          toggle_find(s, t[1], t[2], t[3])
    \/ \E s \in Slots : toggle_write(s)
    \/ \E s \in Slots, force \in BOOLEAN : bootstrap_find(s, force)
    \/ \E s \in Slots : bootstrap_delete_paths(s)
    \/ \E s \in Slots : bootstrap_delete_progress(s)
    \/ \E s \in Slots : bootstrap_insert(s)

ConcSpec == Init /\ [][ConcNext]_vars

----------------
(* Properties of the handlers run one at a time (Spec) *)

NumSeedNodes == 28

IsCall(op) == last.op = op
Returned == last.resp.outcome = "ok"
Failed == last.resp.outcome = "error"
LastPairCompleted(coll) ==
    Completed(coll, last.args.user_id, last.args.path_title)

\* C1: two consecutive toggle_progress calls with the same user_id,
\* path_title and node_id leave the pair's completed set, as get_progress
\* reports it, equal to what it was before the first of the two calls.
C1_ToggleTwiceRestores ==
    (IsCall("toggle_progress") /\ Returned /\ streak = 2)
        => LastPairCompleted(progress) = base

\* two identical toggles, the first of which created the pair's document
\* or found a non-empty set
C1_Witness ==
    /\ IsCall("toggle_progress") /\ Returned /\ streak = 2
    /\ base # {}
    /\ last.args.node_id \notin base

\* C2: one toggle_progress call adds exactly node_id to the pair's set when
\* it was absent (also when the pair had no document) and removes exactly
\* node_id when it was present; the size changes by exactly 1.
C2_ToggleAddsOrRemovesOne ==
    (IsCall("toggle_progress") /\ Returned) =>
        LET old == LastPairCompleted(pre.progress)
            new == LastPairCompleted(progress)
            n == last.args.node_id
        IN  /\ n \notin old => new = old \cup {n}
                              /\ Cardinality(new) = Cardinality(old) + 1
            /\ n \in old => new = old \ {n}
                           /\ Cardinality(new) = Cardinality(old) - 1

\* a toggle that removed one node of a set of two
C2_Witness ==
    /\ IsCall("toggle_progress") /\ Returned
    /\ last.args.node_id \in LastPairCompleted(pre.progress)
    /\ Cardinality(LastPairCompleted(pre.progress)) = 2
    /\ Cardinality(LastPairCompleted(progress)) = 1

\* C3: no stored completed_node_ids list, and no list returned by
\* toggle_progress or get_progress, holds a node id more than once.
C3_NoDuplicates ==
    /\ \A i \in DOMAIN progress : NoDup(progress[i].completed_node_ids)
    /\ ((IsCall("toggle_progress") \/ IsCall("get_progress")) /\ Returned)
          => NoDup(last.resp.body.completed_node_ids)

\* the same node toggled to the add side a second time, next to another node
C3_Witness ==
    /\ IsCall("toggle_progress") /\ Returned /\ streak = 3
    /\ Len(last.resp.body.completed_node_ids) = 2
    /\ last.args.node_id \in Range(last.resp.body.completed_node_ids)

\* C5: after bootstrap_content(force=true) no Progress document that
\* existed when the call started is left, whatever its user_id and
\* path_title, and get_progress reports the empty list for every pair.
C5_ForceWipesAllProgress ==
    (IsCall("bootstrap_content") /\ last.args.force) =>
        /\ \A i \in DOMAIN pre.progress :
              \A j \in DOMAIN progress : progress[j]._id # pre.progress[i]._id
        /\ \A p \in Pairs : ProgressOf(FindOne(progress, p[1], p[2])) = <<>>

\* a forced bootstrap that started with progress for the seeded path and
\* for another title
C5_Witness ==
    /\ IsCall("bootstrap_content") /\ last.args.force /\ Returned
    /\ \E i, j \in DOMAIN pre.progress :
          /\ pre.progress[i].path_title = SeedTitle
          /\ pre.progress[j].path_title # SeedTitle
          /\ pre.progress[j].completed_node_ids # <<>>

\* C6: bootstrap_content(force=false) on a learningpath collection that
\* holds a document changes neither collection and returns status ok,
\* 'Already bootstrapped', no count; after any returned unforced call the
\* collection holds exactly one LearningPath document.
C6_UnforcedIsNoOp ==
    (IsCall("bootstrap_content") /\ ~last.args.force /\ db = "working") =>
        /\ Returned
        /\ Len(learningpath) = 1
        /\ pre.learningpath # <<>> =>
              /\ learningpath = pre.learningpath
              /\ progress = pre.progress
              /\ last.resp.body.status = "ok"
              /\ last.resp.body.message = <<"Already bootstrapped">>
              /\ "count" \notin DOMAIN last.resp.body

\* an unforced bootstrap on a store that holds a path and progress
C6_Witness ==
    /\ IsCall("bootstrap_content") /\ ~last.args.force /\ Returned
    /\ pre.learningpath # <<>>
    /\ pre.progress # <<>>

\* C8: a seeding bootstrap_content call writes one LearningPath titled
\* "Hero's Journey into Coding" with 28 nodes, the node at position i
\* (0-based) having order i and id n<i+1>, and returns count 28.
C8_SeedContent ==
    (IsCall("bootstrap_content") /\ Returned /\ "count" \in DOMAIN last.resp.body) =>
        /\ Cardinality({i \in DOMAIN learningpath :
                \A j \in DOMAIN pre.learningpath :
                    learningpath[i]._id # pre.learningpath[j]._id}) = 1
        /\ last.resp.body.count = NumSeedNodes
        /\ LET path == learningpath[Len(learningpath)]
           IN  /\ path.title = "Hero's Journey into Coding"
               /\ Len(path.nodes) = NumSeedNodes
               /\ \A i \in 0..(NumSeedNodes - 1) :
                     /\ path.nodes[i + 1].order = i
                     /\ path.nodes[i + 1].id = <<"n", i + 1>>
               /\ \A i, j \in DOMAIN path.nodes :
                     i < j => /\ path.nodes[i].order < path.nodes[j].order
                              /\ path.nodes[i].id # path.nodes[j].id

\* a seeding call, forced, on a store that already held a path
C8_Witness ==
    /\ IsCall("bootstrap_content") /\ Returned
    /\ "count" \in DOMAIN last.resp.body
    /\ last.args.force
    /\ pre.learningpath # <<>>

\* C9: get_progress for a pair without a Progress document returns the
\* empty list as a normal result and creates no document; for a pair with
\* a document it returns exactly the stored list.
C9_GetProgress ==
    (IsCall("get_progress") /\ db = "working") =>
        LET doc == FindOne(pre.progress, last.args.user_id, last.args.path_title)
        IN  /\ Returned
            /\ progress = pre.progress
            /\ learningpath = pre.learningpath
            /\ IsNone(doc) => last.resp.body.completed_node_ids = <<>>
            /\ ~IsNone(doc) =>
                  last.resp.body.completed_node_ids = doc.completed_node_ids

\* get_progress that returned a stored list of two node ids
C9_Witness ==
    /\ IsCall("get_progress") /\ Returned
    /\ Len(last.resp.body.completed_node_ids) = 2

C13_ProgressStays ==
    (~IsCall("none") /\ ~(IsCall("bootstrap_content") /\ last.args.force)) =>
        /\ \A i \in DOMAIN pre.progress :
              \E j \in DOMAIN progress :
                  /\ progress[j]._id = pre.progress[i]._id
                  /\ progress[j].user_id = pre.progress[i].user_id
                  /\ progress[j].path_title = pre.progress[i].path_title
        /\ IsCall("bootstrap_content") => progress = pre.progress

\* an unforced bootstrap that seeded an empty learningpath collection
\* while a Progress document with an emptied set existed
C13_Witness ==
    /\ IsCall("bootstrap_content") /\ ~last.args.force /\ Returned
    /\ pre.learningpath = <<>>
    /\ learningpath # <<>>
    /\ \E i \in DOMAIN progress : progress[i].completed_node_ids = <<>>

C16_ToggleFrame ==
    (IsCall("toggle_progress") /\ db = "working") =>
        /\ Returned
        /\ learningpath = pre.learningpath
        /\ \A i \in DOMAIN pre.progress :
              (\/ pre.progress[i].user_id # last.args.user_id
               \/ pre.progress[i].path_title # last.args.path_title)
                 => /\ i \in DOMAIN progress
                    /\ progress[i] = pre.progress[i]

\* a toggle that updated the document of a title no LearningPath has,
\* next to another pair's non-empty document
C16_Witness ==
    /\ IsCall("toggle_progress") /\ Returned
    /\ last.args.path_title = "Side Quest"
    /\ Len(progress) = Len(pre.progress)
    /\ \E i \in DOMAIN pre.progress :
          /\ pre.progress[i].path_title = SeedTitle
          /\ pre.progress[i].completed_node_ids # <<>>

\* C18: after an odd number of consecutive identical toggle_progress
\* calls the node's membership in the pair's set is the opposite of what
\* it was before the first call, after an even number it is the same.
C18_ToggleParity ==
    (IsCall("toggle_progress") /\ Returned /\ streak >= 1) =>
        LET n == last.args.node_id
            before == n \in base
            now == n \in LastPairCompleted(progress)
        IN  IF streak % 2 = 1 THEN now = ~before ELSE now = before

\* a third identical toggle that flipped the node on again
C18_Witness ==
    /\ IsCall("toggle_progress") /\ Returned /\ streak = 3
    /\ last.args.node_id \notin base
    /\ last.args.node_id \in LastPairCompleted(progress)

\* C14: test_database returns its report, never an error, whether the
\* store handle is None, raising or working; it changes neither
\* collection, and its collections field has at most 10 entries.
C14_TestDatabase ==
    IsCall("test_database") =>
        /\ Returned
        /\ learningpath = pre.learningpath /\ progress = pre.progress
        /\ Len(last.resp.body.collections) <= 10
        /\ last.resp.body.backend = "Running"
        /\ db # "working" => last.resp.body.collections = <<>>

\* test_database on a working database that holds eleven collections
C14_Witness ==
    /\ IsCall("test_database") /\ Returned
    /\ db = "working"
    /\ last.args.others = 9
    /\ learningpath # <<>> /\ progress # <<>>
    /\ Len(last.resp.body.collections) = 10

----------------------------------------------------------------------------
(* Properties of the interleaved handlers (ConcSpec) *)

\* C4: the progress collection holds at most one Progress document for
\* each (user_id, path_title) pair, under every interleaving of the find,
\* insert and update steps of toggle_progress requests.
C4_OneDocumentPerPair ==
    \A i, j \in DOMAIN progress :
        (/\ progress[i].user_id = progress[j].user_id
         /\ progress[i].path_title = progress[j].path_title) => i = j

\* C7: a bootstrap_content(force=true) call that no other request
\* interleaves leaves exactly one LearningPath document, the fixed seed
\* path, whatever number of documents the collection held before.
C7_ForcedLeavesTheSeedPath ==
    (/\ IsCall("bootstrap_content") /\ Returned
     /\ last.args.force /\ last.solo) =>
        /\ Len(learningpath) = 1
        /\ StripId(learningpath[1]) = SeedPath
        /\ last.resp = Bootstrapped

\* a forced bootstrap, not interleaved, on a collection that held two
\* LearningPath documents
C7_Witness ==
    /\ IsCall("bootstrap_content") /\ Returned
    /\ last.args.force /\ last.solo
    /\ "began" \in DOMAIN last.args
    /\ last.args.began = 2

\* C11: when two toggle_progress requests read the same Progress document
\* before either updates it, for different nodes a and b, the document
\* after the later update holds the set both read with only the later
\* writer's node b toggled; a is in it exactly when it was in the set read.
C11_LastWriteWins ==
    (/\ IsCall("toggle_progress") /\ Returned
     /\ "earlier" \in DOMAIN last
     /\ last.earlier # <<>>
     /\ \E i \in DOMAIN progress : progress[i]._id = last.read._id) =>
        LET a == last.earlier[1]
            b == last.args.node_id
            read == Range(last.read.completed_node_ids)
            i == CHOOSE i \in DOMAIN progress : progress[i]._id = last.read._id
            final == Range(progress[i].completed_node_ids)
        IN  /\ a # b
            /\ final = IF b \in read THEN read \ {b} ELSE read \cup {b}
            /\ a \in final <=> a \in read

\* the later of two racing toggles: the earlier one had added a, which the
\* later write, adding b, dropped again
C11_Witness ==
    /\ IsCall("toggle_progress") /\ Returned
    /\ "earlier" \in DOMAIN last
    /\ last.earlier # <<>>
    /\ last.earlier[1] \notin Range(last.read.completed_node_ids)
    /\ last.args.node_id \notin Range(last.read.completed_node_ids)
    /\ \E i \in DOMAIN progress :
          /\ progress[i]._id = last.read._id
          /\ Range(progress[i].completed_node_ids)
                = Range(last.read.completed_node_ids) \cup {last.args.node_id}

\* C12: whenever toggle_progress returns status ok with a list, the
\* progress collection, as its write step leaves it, holds a document for
\* the call's pair whose completed_node_ids is that list as a set.
C12_ResponseReflectsStore ==
    (IsCall("toggle_progress") /\ Returned) =>
        \E i \in DOMAIN progress :
            /\ progress[i].user_id = last.args.user_id
            /\ progress[i].path_title = last.args.path_title
            /\ Range(progress[i].completed_node_ids)
                  = Range(last.resp.body.completed_node_ids)

\* C17: the learningpath collection holds at most one document under
\* every interleaving of the find, delete_many and insert steps of
\* bootstrap_content requests.
C17_AtMostOnePath == Len(learningpath) <= 1

====
